---- MODULE Spec2Model ----
(***************************************************************************)
(* A model of the MFAF archive codec (core.py): the in-memory archive      *)
(* (MFAFFile / MFAFEntry), save (encode) and load (decode) at the level of *)
(* the bytes of the file, and the name lookup helpers.                     *)
(*                                                                         *)
(* Bytes are integers 0..255, a bytes object or a file is a sequence of    *)
(* bytes.  A str is the sequence of its (ASCII) character codes.  A Python *)
(* object whose type is decided at run time (what msgpack.unpackb returns, *)
(* and so every field MFAFEntry.from_dict fills) is a record               *)
(* [t |-> type, v |-> payload].                                            *)
(***************************************************************************)
EXTENDS Integers, Sequences, FiniteSets, TLC

(***************************************************************************)
(* Program constants (core.py 16-22).                                      *)
(***************************************************************************)
HEADER_MAGIC == <<77, 65, 70, 70, 73, 76, 69, 1>>       \* b'MAFFILE\x01'
FOOTER_MAGIC == <<69, 78, 68, 77, 65, 70, 0, 0>>        \* b'ENDMAF\x00\x00'
HEADER_SIZE == 64
FOOTER_SIZE == 64
\* 'application/octet-stream', the default of MFAFEntry's mime_type
DEFAULT_MIME ==
  <<97, 112, 112, 108, 105, 99, 97, 116, 105, 111, 110, 47,
    111, 99, 116, 101, 116, 45, 115, 116, 114, 101, 97, 109>>

(***************************************************************************)
(* Sequences of bytes.                                                     *)
(***************************************************************************)
Byte == 0..255

\* n zero bytes: the pad bytes ('24x', '44x') of struct.pack
Zeros(n) == [i \in 1..n |-> 0]

\* s[a+1 .. b], clipped to s: Python's s[a:b] for 0 <= a
Slice(s, a, b) ==
  IF a >= Len(s) \/ b <= a THEN <<>>
  ELSE SubSeq(s, a + 1, IF b > Len(s) THEN Len(s) ELSE b)

\* struct's little-endian unsigned integer of k bytes ('<Q', '<I', '<H')
RECURSIVE PackLE(_, _)
PackLE(n, k) == IF k = 0 THEN <<>> ELSE <<n % 256>> \o PackLE(n \div 256, k - 1)

RECURSIVE UnpackLE(_)
UnpackLE(b) == IF b = <<>> THEN 0 ELSE b[1] + 256 * UnpackLE(Tail(b))

\* big-endian, as msgpack writes its lengths and integers
RECURSIVE PackBE(_, _)
PackBE(n, k) == IF k = 0 THEN <<>> ELSE PackBE(n \div 256, k - 1) \o <<n % 256>>

RECURSIVE UnpackBE(_)
UnpackBE(b) ==
  IF b = <<>> THEN 0 ELSE b[Len(b)] + 256 * UnpackBE(SubSeq(b, 1, Len(b) - 1))

(***************************************************************************)
(* zlib.crc32: the reflected CRC-32 (polynomial 0xEDB88320), initial value *)
(* and final xor 0xFFFFFFFF.  A 32-bit word is the tuple of its four bytes,*)
(* least significant first, which is also how '<I' lays it out.            *)
(***************************************************************************)
RECURSIVE XorBits(_, _, _)
XorBits(a, b, n) ==
  IF n = 0 THEN 0
  ELSE ((a + b) % 2) + 2 * XorBits(a \div 2, b \div 2, n - 1)

XorTable == [a \in Byte |-> [b \in Byte |-> XorBits(a, b, 8)]]

XorByte(a, b) == XorTable[a][b]

XorWord(x, y) == [i \in 1..4 |-> XorByte(x[i], y[i])]

ShiftRight1(x) ==
  [i \in 1..4 |-> (x[i] \div 2) + (IF i < 4 THEN (x[i + 1] % 2) * 128 ELSE 0)]

ShiftRight8(x) == <<x[2], x[3], x[4], 0>>

CRC_POLY == <<32, 131, 184, 237>>                       \* 0xEDB88320

RECURSIVE CrcTableEntry(_, _)
CrcTableEntry(c, k) ==
  IF k = 0 THEN c
  ELSE CrcTableEntry(IF c[1] % 2 = 1 THEN XorWord(ShiftRight1(c), CRC_POLY)
                                       ELSE ShiftRight1(c), k - 1)

CrcTable == [i \in Byte |-> CrcTableEntry(<<i, 0, 0, 0>>, 8)]

\* one byte more: crc = table[(crc ^ byte) & 0xff] ^ (crc >> 8)
CrcStep(crc, byte) == XorWord(CrcTable[XorByte(crc[1], byte)], ShiftRight8(crc))

RECURSIVE CrcUpdate(_, _, _, _)
\* the bytes data[lo..hi] taken in, in order.  The range is halved, and the
\* first half's word is computed (the test on it) before the second half
\* starts, so that the evaluation stays shallow.
CrcUpdate(crc, data, lo, hi) ==
  IF lo > hi THEN crc
  ELSE IF lo = hi THEN CrcStep(crc, data[lo])
  ELSE LET mid == (lo + hi) \div 2
           left == CrcUpdate(crc, data, lo, mid)
       IN  IF Len(left) = 4 THEN CrcUpdate(left, data, mid + 1, hi) ELSE left

\* zlib.crc32(data) & 0xffffffff, as the four bytes of '<I'
crc32(data) ==
  XorWord(CrcUpdate(<<255, 255, 255, 255>>, data, 1, Len(data)),
          <<255, 255, 255, 255>>)

(***************************************************************************)
(* Python objects.                                                         *)
(***************************************************************************)
PyInt(n) == [t |-> "int", v |-> n]
PyStr(s) == [t |-> "str", v |-> s]
PyList(items) == [t |-> "list", v |-> items]
\* a dict is the sequence of its <<key, value>> items in insertion order
PyDict(items) == [t |-> "dict", v |-> items]
PyNone == [t |-> "None", v |-> 0]
PyBool(b) == [t |-> "bool", v |-> b]

(***************************************************************************)
(* dict operations.                                                        *)
(***************************************************************************)
RECURSIVE DictIndex(_, _, _)
\* the position of key k among the items, 0 when absent
DictIndex(items, k, i) ==
  IF i > Len(items) THEN 0
  ELSE IF items[i][1] = k THEN i ELSE DictIndex(items, k, i + 1)

\* d[k] = val: a present key keeps its place and takes the new value
DictSet(items, k, val) ==
  LET i == DictIndex(items, k, 1)
  IN  IF i = 0 THEN Append(items, <<k, val>>)
      ELSE [items EXCEPT ![i] = <<k, val>>]

\* d.get(k, default)
DictGet(d, k, default) ==
  LET i == DictIndex(d.v, k, 1)
  IN  IF i = 0 THEN default ELSE d.v[i][2]

\* dict equality: the same keys with the same values, in any order
DictEq(d1, d2) ==
  /\ Len(d1.v) = Len(d2.v)
  /\ \A i \in 1..Len(d1.v) :
       LET j == DictIndex(d2.v, d1.v[i][1], 1)
       IN  j # 0 /\ d2.v[j][2] = d1.v[i][2]

\* Python's truth value of an object (bool(x))
Truthy(x) ==
  CASE x.t = "None" -> FALSE
    [] x.t = "bool" -> x.v
    [] x.t = "int" -> x.v # 0
    [] x.t \in {"str", "list", "dict"} -> Len(x.v) > 0

(***************************************************************************)
(* msgpack.packb: the MessagePack encoding of the objects an archive's     *)
(* metadata holds (None, bool, int, str, list, dict).                      *)
(***************************************************************************)
PackInt(n) ==
  CASE 0 <= n /\ n < 128 -> <<n>>                        \* positive fixint
    [] -32 <= n /\ n < 0 -> <<256 + n>>                  \* negative fixint
    [] 128 <= n /\ n < 256 -> <<204, n>>                 \* uint 8
    [] 256 <= n /\ n < 65536 -> <<205>> \o PackBE(n, 2)  \* uint 16
    [] 65536 <= n -> <<206>> \o PackBE(n, 4)             \* uint 32
    [] -128 <= n /\ n < -32 -> <<208, 256 + n>>          \* int 8
    [] -32768 <= n /\ n < -128 -> <<209>> \o PackBE(65536 + n, 2)  \* int 16

PackStrHeader(n) ==
  CASE n < 32 -> <<160 + n>>                             \* fixstr
    [] 32 <= n /\ n < 256 -> <<217, n>>                  \* str 8
    [] 256 <= n -> <<218>> \o PackBE(n, 2)               \* str 16

PackArrayHeader(n) ==
  IF n < 16 THEN <<144 + n>> ELSE <<220>> \o PackBE(n, 2)  \* fixarray, array 16

PackMapHeader(n) ==
  IF n < 16 THEN <<128 + n>> ELSE <<222>> \o PackBE(n, 2)  \* fixmap, map 16

RECURSIVE packb(_)
RECURSIVE PackItems(_, _)
RECURSIVE PackPairs(_, _)
packb(x) ==
  CASE x.t = "None" -> <<192>>
    [] x.t = "bool" -> IF x.v THEN <<195>> ELSE <<194>>
    [] x.t = "int" -> PackInt(x.v)
    [] x.t = "str" -> PackStrHeader(Len(x.v)) \o x.v
    [] x.t = "list" -> PackArrayHeader(Len(x.v)) \o PackItems(x.v, 1)
    [] x.t = "dict" -> PackMapHeader(Len(x.v)) \o PackPairs(x.v, 1)

PackItems(items, i) ==
  IF i > Len(items) THEN <<>> ELSE packb(items[i]) \o PackItems(items, i + 1)

PackPairs(items, i) ==
  IF i > Len(items) THEN <<>>
  ELSE packb(items[i][1]) \o packb(items[i][2]) \o PackPairs(items, i + 1)

(***************************************************************************)
(* msgpack.unpackb (raw=False, strict_map_key=True).  Unpack reads one     *)
(* object at position p and answers [st, val, next]: st is "ok", "error"   *)
(* (unpackb raises: an unused tag, data that ends too soon, a str that is  *)
(* not UTF-8, a map key that is no str) or "unmodelled" (a type outside    *)
(* the ones above: bin, ext, float, 64-bit integers).                      *)
(***************************************************************************)
UnpackFail(st) == [st |-> st, val |-> PyNone, next |-> 0]

UnpackOk(val, next) == [st |-> "ok", val |-> val, next |-> next]

\* the n bytes at p as an unsigned big-endian number, when the data holds them
UnpackUInt(b, p, n) ==
  IF p + n - 1 > Len(b) THEN UnpackFail("error")
  ELSE UnpackOk(PyInt(UnpackBE(SubSeq(b, p, p + n - 1))), p + n)

UnpackSInt(b, p, n, modulus) ==
  IF p + n - 1 > Len(b) THEN UnpackFail("error")
  ELSE LET u == UnpackBE(SubSeq(b, p, p + n - 1))
       IN  UnpackOk(PyInt(IF u >= modulus \div 2 THEN u - modulus ELSE u), p + n)

UnpackStr(b, p, n) ==
  IF p + n - 1 > Len(b) THEN UnpackFail("error")
  ELSE LET s == SubSeq(b, p, p + n - 1)
       IN  IF \E i \in 1..n : s[i] >= 128 THEN UnpackFail("unmodelled")
           ELSE UnpackOk(PyStr(s), p + n)

RECURSIVE Unpack(_, _)
RECURSIVE UnpackItems(_, _, _, _)
RECURSIVE UnpackPairs(_, _, _, _)
Unpack(b, p) ==
  IF p > Len(b) THEN UnpackFail("error")
  ELSE LET tag == b[p]
       IN  CASE tag < 128 -> UnpackOk(PyInt(tag), p + 1)
             [] 128 <= tag /\ tag < 144 -> UnpackPairs(b, p + 1, tag - 128, <<>>)
             [] 144 <= tag /\ tag < 160 -> UnpackItems(b, p + 1, tag - 144, <<>>)
             [] 160 <= tag /\ tag < 192 -> UnpackStr(b, p + 1, tag - 160)
             [] tag = 192 -> UnpackOk(PyNone, p + 1)
             [] tag = 193 -> UnpackFail("error")
             [] tag = 194 -> UnpackOk(PyBool(FALSE), p + 1)
             [] tag = 195 -> UnpackOk(PyBool(TRUE), p + 1)
             [] tag = 204 -> UnpackUInt(b, p + 1, 1)
             [] tag = 205 -> UnpackUInt(b, p + 1, 2)
             [] tag = 208 -> UnpackSInt(b, p + 1, 1, 256)
             [] tag = 209 -> UnpackSInt(b, p + 1, 2, 65536)
             [] tag = 217 ->
                  IF p + 1 > Len(b) THEN UnpackFail("error")
                  ELSE UnpackStr(b, p + 2, b[p + 1])
             [] tag = 220 ->
                  IF p + 2 > Len(b) THEN UnpackFail("error")
                  ELSE UnpackItems(b, p + 3, UnpackBE(SubSeq(b, p + 1, p + 2)), <<>>)
             [] tag >= 224 -> UnpackOk(PyInt(tag - 256), p + 1)
             [] OTHER -> UnpackFail("unmodelled")

UnpackItems(b, p, n, acc) ==
  IF n = 0 THEN UnpackOk(PyList(acc), p)
  ELSE LET r == Unpack(b, p)
       IN  IF r.st # "ok" THEN r
           ELSE UnpackItems(b, r.next, n - 1, Append(acc, r.val))

UnpackPairs(b, p, n, acc) ==
  IF n = 0 THEN UnpackOk(PyDict(acc), p)
  ELSE LET k == Unpack(b, p)
       IN  IF k.st # "ok" THEN k
           ELSE IF k.val.t # "str" THEN UnpackFail("error")
           ELSE LET x == Unpack(b, k.next)
                IN  IF x.st # "ok" THEN x
                    ELSE UnpackPairs(b, x.next, n - 1, DictSet(acc, k.val, x.val))

\* unpackb(data): one object that takes the whole of the data, else it raises
unpackb(data) ==
  LET r == Unpack(data, 1)
  IN  IF r.st = "ok" /\ r.next # Len(data) + 1 THEN UnpackFail("error") ELSE r

(***************************************************************************)
(* MFAFEntry.                                                              *)
(***************************************************************************)
EMPTY_DICT == PyDict(<<>>)

KEY_NAME == PyStr(<<110>>)                              \* 'n'
KEY_OFFSET == PyStr(<<111>>)                            \* 'o'
KEY_SIZE == PyStr(<<115>>)                              \* 's'
KEY_MIME == PyStr(<<109>>)                              \* 'm'
KEY_ATTRIBUTES == PyStr(<<97>>)                         \* 'a'

\* MFAFEntry.__init__(name, content, mime_type, attributes)
MFAFEntry(name, content, mime_type, attributes) ==
  [name |-> name,
   content |-> content,
   mime_type |-> mime_type,
   attributes |-> IF Truthy(attributes) THEN attributes ELSE EMPTY_DICT,
   offset |-> PyInt(0),
   size |-> PyInt(Len(content))]

\* MFAFEntry.to_dict
to_dict(e) ==
  LET result == << <<KEY_NAME, e.name>>, <<KEY_OFFSET, e.offset>>,
                   <<KEY_SIZE, e.size>>, <<KEY_MIME, e.mime_type>> >>
  IN  PyDict(IF Truthy(e.attributes)
             THEN Append(result, <<KEY_ATTRIBUTES, e.attributes>>)
             ELSE result)

\* MFAFEntry.from_dict, for data that is a dict
from_dict(data) ==
  LET entry == MFAFEntry(DictGet(data, KEY_NAME, PyStr(<<>>)), <<>>,
                         DictGet(data, KEY_MIME, PyStr(DEFAULT_MIME)),
                         DictGet(data, KEY_ATTRIBUTES, EMPTY_DICT))
  IN  [entry EXCEPT !.offset = DictGet(data, KEY_OFFSET, PyInt(0)),
                    !.size = DictGet(data, KEY_SIZE, PyInt(0))]

(***************************************************************************)
(* MFAFFile.                                                               *)
(***************************************************************************)
\* MFAFFile.__init__
MFAFFile ==
  [entries |-> <<>>, version |-> 1, flags |-> 0,
   total_size |-> HEADER_SIZE + FOOTER_SIZE]

RECURSIVE ContentSize(_, _)
\* sum(len(entry.content) for entry in self.entries)
ContentSize(entries, i) ==
  IF i > Len(entries) THEN 0
  ELSE Len(entries[i].content) + ContentSize(entries, i + 1)

RECURSIVE SetOffsetsNoAdvance(_, _, _)
\* a loop that forgets current_offset += entry.size
SetOffsetsNoAdvance(entries, i, current_offset) ==
  IF i > Len(entries) THEN entries
  ELSE SetOffsetsNoAdvance([entries EXCEPT ![i].offset = PyInt(current_offset)],
                           i + 1, current_offset)

RECURSIVE SetOffsets(_, _, _)
\* save's loop: entry.offset = current_offset; current_offset += entry.size
SetOffsets(entries, i, current_offset) ==
  IF i > Len(entries) THEN entries
  ELSE SetOffsets([entries EXCEPT ![i].offset = PyInt(current_offset)],
                  i + 1, current_offset + entries[i].size.v)

RECURSIVE ContentBytes(_, _)
\* save's loop: f.write(entry.content)
ContentBytes(entries, i) ==
  IF i > Len(entries) THEN <<>>
  ELSE entries[i].content \o ContentBytes(entries, i + 1)

\* struct.pack('<8sQQQIHH24x', ...)
PackHeader(magic, total, content_offset, metadata_offset, count, version, flags) ==
  magic \o PackLE(total, 8) \o PackLE(content_offset, 8)
        \o PackLE(metadata_offset, 8) \o PackLE(count, 4)
        \o PackLE(version, 2) \o PackLE(flags, 2) \o Zeros(24)

\* struct.pack('<8sQI44x', ...); the checksum is already the bytes of '<I'
PackFooter(magic, metadata_end, checksum) ==
  magic \o PackLE(metadata_end, 8) \o checksum \o Zeros(44)

\* the entries as save leaves them
SaveEntries(self) == SetOffsets(self.entries, 1, HEADER_SIZE)

\* metadata_bytes = msgpack.packb([entry.to_dict() for entry in self.entries])
SaveMetadata(self) ==
  LET entries == SaveEntries(self)
  IN  packb(PyList([i \in 1..Len(entries) |-> to_dict(entries[i])]))

\* save's offsets: content_offset, metadata_offset, metadata_end
SaveLayout(self) ==
  LET content_offset == HEADER_SIZE
      content_size == ContentSize(self.entries, 1)
      metadata_offset == content_offset + content_size
  IN  [content_offset |-> content_offset,
       metadata_offset |-> metadata_offset,
       metadata_end |-> metadata_offset + Len(SaveMetadata(self))]

\* the bytes save writes
SaveBytes(self) ==
  LET lay == SaveLayout(self)
      metadata_bytes == SaveMetadata(self)
  IN  PackHeader(HEADER_MAGIC, lay.metadata_end + FOOTER_SIZE, lay.content_offset,
                 lay.metadata_offset, Len(self.entries), self.version, self.flags)
        \o ContentBytes(self.entries, 1)
        \o metadata_bytes
        \o PackFooter(FOOTER_MAGIC, lay.metadata_end, crc32(metadata_bytes))

(***************************************************************************)
(* File reads: f.seek(pos) and f.read(n) of a binary file whose bytes are  *)
(* data, for the objects the metadata can put in pos and n.                *)
(***************************************************************************)
\* the error f.seek(pos) raises, "" when it raises none
SeekError(pos) ==
  CASE pos.t = "int" -> IF pos.v < 0 THEN "OSError" ELSE ""
    [] pos.t = "bool" -> ""
    [] OTHER -> "TypeError"

\* the error f.read(n) raises, "" when it raises none
ReadError(n) ==
  CASE n.t = "int" -> IF n.v < -1 THEN "ValueError" ELSE ""
    [] n.t \in {"bool", "None"} -> ""
    [] OTHER -> "TypeError"

IntOf(x) == IF x.t = "bool" THEN (IF x.v THEN 1 ELSE 0) ELSE x.v

\* what f.seek(pos); f.read(n) returns when neither raises: read stops at
\* the end of the file, and read(-1) and read(None) read up to it
SeekRead(data, pos, n) ==
  IF n.t = "None" \/ IntOf(n) = -1
  THEN Slice(data, IntOf(pos), Len(data))
  ELSE Slice(data, IntOf(pos), IntOf(pos) + IntOf(n))

(***************************************************************************)
(* MFAFFile.load.  The outcome is [status, archive]: status "ok" with the  *)
(* archive returned, or the class of the exception that leaves load.       *)
(***************************************************************************)
NO_ARCHIVE == [entries |-> <<>>, version |-> 0, flags |-> 0, total_size |-> 0]

Raise(exception) == [status |-> exception, archive |-> NO_ARCHIVE]

\* what "for item in metadata_list" iterates over; the flag is FALSE when
\* the object is not iterable
IterItems(x) ==
  CASE x.t = "list" -> [ok |-> TRUE, items |-> x.v]
    [] x.t = "dict" -> [ok |-> TRUE, items |-> [i \in 1..Len(x.v) |-> x.v[i][1]]]
    [] x.t = "str" -> [ok |-> TRUE, items |-> [i \in 1..Len(x.v) |-> PyStr(<<x.v[i]>>)]]
    [] OTHER -> [ok |-> FALSE, items |-> <<>>]

RECURSIVE LoadEntries(_, _, _, _)
\* load's loop over the metadata records (core.py 234-239)
LoadEntries(data, items, i, mfaf) ==
  IF i > Len(items) THEN [status |-> "ok", archive |-> mfaf]
  ELSE IF items[i].t # "dict" THEN Raise("AttributeError")
  ELSE LET entry == from_dict(items[i])
       IN  IF SeekError(entry.offset) # "" THEN Raise(SeekError(entry.offset))
           ELSE IF ReadError(entry.size) # "" THEN Raise(ReadError(entry.size))
           ELSE LoadEntries(data, items, i + 1,
                  [mfaf EXCEPT !.entries = Append(@,
                     [entry EXCEPT !.content =
                        SeekRead(data, entry.offset, entry.size)])])

\* struct.unpack('<8sQQQIHH24x', header_data) and
\* struct.unpack('<8sQI44x', footer_data), one operator per field
HeaderMagic(header_data) == SubSeq(header_data, 1, 8)

HeaderTotalSize(header_data) == UnpackLE(SubSeq(header_data, 9, 16))

HeaderContentOffset(header_data) == UnpackLE(SubSeq(header_data, 17, 24))

HeaderMetadataOffset(header_data) == UnpackLE(SubSeq(header_data, 25, 32))

HeaderFileCount(header_data) == UnpackLE(SubSeq(header_data, 33, 36))

HeaderVersion(header_data) == UnpackLE(SubSeq(header_data, 37, 38))

HeaderFlags(header_data) == UnpackLE(SubSeq(header_data, 39, 40))

FooterMagic(footer_data) == SubSeq(footer_data, 1, 8)

FooterMetadataEnd(footer_data) == UnpackLE(SubSeq(footer_data, 9, 16))

FooterChecksum(footer_data) == SubSeq(footer_data, 17, 20)

\* a checksum test that looks at the low byte of the two words only
ChecksumMismatchLowByte(calculated_checksum, checksum) ==
  calculated_checksum[1] # checksum[1]

\* calculated_checksum != checksum (core.py 218)
ChecksumMismatch(calculated_checksum, checksum) ==
  calculated_checksum # checksum

\* a version test that is off by one
UnsupportedVersionAbove2(version) == version > 2

\* version > 1 (core.py 189)
UnsupportedVersion(version) == version > 1

\* core.py 211-241: from the metadata read to the return
LoadBody(data, header_data, footer_data) ==
  LET metadata_offset == HeaderMetadataOffset(header_data)
      metadata_end == FooterMetadataEnd(footer_data)
      metadata_length == PyInt(metadata_end - metadata_offset)
  IN  IF ReadError(metadata_length) # "" THEN Raise(ReadError(metadata_length))
      ELSE LET metadata_bytes ==
                 SeekRead(data, PyInt(metadata_offset), metadata_length)
           IN  IF ChecksumMismatch(crc32(metadata_bytes),
                                   FooterChecksum(footer_data))
               THEN Raise("MFAFCRCError")
               ELSE LET parsed == unpackb(metadata_bytes)
                    IN  IF parsed.st = "error" THEN Raise("MFAFMsgPackError")
                        ELSE IF parsed.st # "ok" THEN Raise("unmodelled")
                        ELSE LET iter == IterItems(parsed.val)
                                 mfaf == [entries |-> <<>>,
                                          version |-> HeaderVersion(header_data),
                                          flags |-> HeaderFlags(header_data),
                                          total_size |-> HeaderTotalSize(header_data)]
                             IN  IF ~iter.ok THEN Raise("TypeError")
                                 ELSE LoadEntries(data, iter.items, 1, mfaf)

\* core.py 192-209: the footer and the size fields
LoadFooter(data, header_data) ==
  LET footer_data == Slice(data, Len(data) - FOOTER_SIZE, Len(data))
  IN  IF Len(footer_data) < FOOTER_SIZE THEN Raise("MFAFSizeError")
      ELSE IF FooterMagic(footer_data) # FOOTER_MAGIC THEN Raise("MFAFMagicError")
      ELSE IF HeaderMetadataOffset(header_data)
                + (FooterMetadataEnd(footer_data) - HeaderMetadataOffset(header_data))
                + FOOTER_SIZE # HeaderTotalSize(header_data)
           THEN Raise("MFAFSizeError")
      ELSE LoadBody(data, header_data, footer_data)

\* MFAFFile.load of the file whose bytes are data
load(data) ==
  LET header_data == Slice(data, 0, HEADER_SIZE)
  IN  IF Len(header_data) < HEADER_SIZE THEN Raise("MFAFSizeError")
      ELSE IF HeaderMagic(header_data) # HEADER_MAGIC THEN Raise("MFAFMagicError")
      ELSE IF UnsupportedVersion(HeaderVersion(header_data))
           THEN Raise("MFAFVersionError")
      ELSE LoadFooter(data, header_data)

(***************************************************************************)
(* MFAFFile.get_entry and MFAFFile.extract_entry.                          *)
(***************************************************************************)
RECURSIVE get_entry_last(_, _, _)
\* a scan that keeps the last entry of that name
get_entry_last(entries, name, i) ==
  IF i > Len(entries) THEN 0
  ELSE LET later == get_entry_last(entries, name, i + 1)
       IN  IF later # 0 THEN later
           ELSE IF entries[i].name = name THEN i ELSE 0

RECURSIVE get_entry(_, _, _)
\* the entry get_entry returns, as its position in self.entries; 0 is None
get_entry(entries, name, i) ==
  IF i > Len(entries) THEN 0
  ELSE IF entries[i].name = name THEN i ELSE get_entry(entries, name, i + 1)

\* extract_entry's outcome: the exception it raises ("" when none) and the
\* output file it leaves, given the output file there was before
extract_entry(entries, name, before) ==
  LET entry == get_entry(entries, name, 1)
  IN  IF entry = 0 THEN [error |-> "KeyError", output |-> before]
      ELSE [error |-> "",
            output |-> [exists |-> TRUE, data |-> entries[entry].content]]

(***************************************************************************)
(* The inputs of the model.                                                *)
(***************************************************************************)
MaxEntries == 2
MaxLookupEntries == 3

NAME_A == PyStr(<<97>>)
NAME_B == PyStr(<<98>>)
NAME_MISSING == PyStr(<<122>>)
ATTR_KEY == PyStr(<<107>>)

\* the (name, content, mime_type, attributes) that entries are built from
EntryInputs ==
  { [name |-> NAME_A, content |-> <<104, 105>>, mime_type |-> PyStr(<<116>>),
     attributes |-> PyNone],
    [name |-> NAME_B, content |-> <<>>, mime_type |-> PyStr(<<116>>),
     attributes |-> PyDict(<< <<ATTR_KEY, PyStr(<<118>>)>> >>)],
    [name |-> NAME_A, content |-> <<255>>, mime_type |-> PyStr(<<120>>),
     attributes |-> EMPTY_DICT] }

\* the contents a caller assigns to entry.content after construction
ContentInputs == { <<>>, <<1, 2, 3>> }

LookupNames == {NAME_A, NAME_B, NAME_MISSING}

\* what replaces the header magic
BadMagics == << Zeros(8), FOOTER_MAGIC, <<77, 65, 70, 70, 73, 76, 69, 2>> >>

VersionInputs == {0, 2, 3, 65535}

\* What a file written by another program holds as its metadata blob.  A
\* raw blob stands for itself, the others are the MessagePack encoding of
\* an object.
Record(items) == PyDict(items)

ForeignBlobs ==
  << <<193>>,                                           \* a tag msgpack never uses
     <<145>>,                                           \* an array cut short
     packb(PyInt(5)),
     packb(PyList(<<PyInt(5)>>)),
     packb(EMPTY_DICT),
     packb(PyList(<<Record(<<>>)>>)),
     packb(PyList(<<Record(<< <<KEY_NAME, NAME_A>>, <<KEY_OFFSET, PyInt(64)>>,
                              <<KEY_SIZE, PyInt(2)>> >>)>>)),
     packb(PyList(<<Record(<< <<KEY_OFFSET, PyInt(64)>>,
                              <<KEY_SIZE, PyInt(-2)>> >>)>>)),
     packb(PyList(<<Record(<< <<KEY_OFFSET, PyInt(64)>>,
                              <<KEY_SIZE, PyInt(-1)>> >>)>>)),
     packb(PyList(<<Record(<< <<KEY_OFFSET, PyInt(-1)>> >>)>>)),
     packb(PyList(<<Record(<< <<KEY_OFFSET, NAME_A>> >>)>>)),
     packb(PyList(<<Record(<< <<KEY_OFFSET, PyInt(66)>>,
                              <<KEY_SIZE, PyInt(200)>> >>)>>)),
     packb(PyList(<<Record(<< <<KEY_OFFSET, PyInt(300)>>,
                              <<KEY_SIZE, PyInt(4)>> >>)>>)) >>

FOREIGN_CONTENT == <<1, 2, 3>>

\* the files another program may have written: a container around one of
\* the blobs, with the checksum of the blob, whose header magic, version,
\* footer magic, total_size and metadata_offset are right or wrong
ForeignInputs ==
  [blob : 1..Len(ForeignBlobs), magic_ok : BOOLEAN, version : {1, 2},
   footer_ok : BOOLEAN, size_ok : BOOLEAN, offset_past_end : BOOLEAN]

ForeignLayout(x) ==
  [content_offset |-> HEADER_SIZE,
   metadata_offset |-> HEADER_SIZE + Len(FOREIGN_CONTENT),
   metadata_end |-> HEADER_SIZE + Len(FOREIGN_CONTENT) + Len(ForeignBlobs[x.blob])]

ForeignBytes(x) ==
  LET lay == ForeignLayout(x)
      blob == ForeignBlobs[x.blob]
  IN  PackHeader(IF x.magic_ok THEN HEADER_MAGIC ELSE BadMagics[1],
                 lay.metadata_end + FOOTER_SIZE + (IF x.size_ok THEN 0 ELSE 1),
                 lay.content_offset,
                 IF x.offset_past_end THEN lay.metadata_end + 2
                                      ELSE lay.metadata_offset,
                 1, x.version, 0)
        \o FOREIGN_CONTENT \o blob
        \o PackFooter(IF x.footer_ok THEN FOOTER_MAGIC ELSE HEADER_MAGIC,
                      lay.metadata_end, crc32(blob))

(***************************************************************************)
(* The state.                                                              *)
(***************************************************************************)
VARIABLES
  archive,    \* the MFAFFile the caller builds and saves
  disk,       \* the bytes of the file at file_path
  layout,     \* the offsets the writer of the file computed
  tamper,     \* what happened to the file after it was written
  loaded,     \* the outcome of MFAFFile.load(file_path)
  phase,      \* "building", "saved", "tampered", "loaded"
  found,      \* the last get_entry call (the name, the number of entries
              \* there were) and what it returned
  extracted   \* the last extract_entry call, its error and the output file

vars == <<archive, disk, layout, tamper, loaded, phase, found, extracted>>

NO_TAMPER == [kind |-> "none", at |-> 0, arg |-> 0]

NO_FILE == [exists |-> FALSE, data |-> <<>>]

Init ==
  /\ archive = MFAFFile
  /\ disk = <<>>
  /\ layout = [content_offset |-> 0, metadata_offset |-> 0, metadata_end |-> 0]
  /\ tamper = NO_TAMPER
  /\ loaded = [status |-> "none", archive |-> NO_ARCHIVE]
  /\ phase = "building"
  /\ found = [called |-> FALSE, name |-> NAME_MISSING, count |-> 0, entry |-> 0]
  /\ extracted = [called |-> FALSE, name |-> NAME_MISSING, count |-> 0,
                  error |-> "", output |-> NO_FILE]

(***************************************************************************)
(* Building.                                                               *)
(***************************************************************************)
\* mfaf.add_entry(MFAFEntry(name, content, mime_type, attributes))
add_entry(entry) ==
  /\ phase = "building"
  /\ archive' = [archive EXCEPT !.entries = Append(@, entry)]
  /\ UNCHANGED <<disk, layout, tamper, loaded, phase, found, extracted>>

AddEntry(limit) ==
  /\ Len(archive.entries) < limit
  /\ \E x \in EntryInputs :
       add_entry(MFAFEntry(x.name, x.content, x.mime_type, x.attributes))

\* entry.content = content, on an entry of the archive being built
SetContent ==
  /\ phase = "building"
  /\ \E i \in 1..Len(archive.entries), content \in ContentInputs :
       /\ archive.entries[i].content # content
       /\ archive' = [archive EXCEPT !.entries[i].content = content]
  /\ UNCHANGED <<disk, layout, tamper, loaded, phase, found, extracted>>

\* mfaf.save(file_path)
Save ==
  /\ phase = "building"
  /\ archive' = [archive EXCEPT
                   !.entries = SaveEntries(archive),
                   !.total_size = SaveLayout(archive).metadata_end + FOOTER_SIZE]
  /\ disk' = SaveBytes(archive)
  /\ layout' = SaveLayout(archive)
  /\ phase' = "saved"
  /\ UNCHANGED <<tamper, loaded, found, extracted>>

\* MFAFFile.load(file_path)
Load ==
  /\ phase \in {"saved", "tampered"}
  /\ loaded' = load(disk)
  /\ phase' = "loaded"
  /\ UNCHANGED <<archive, disk, layout, tamper, found, extracted>>

\* mfaf.get_entry(name)
GetEntry ==
  /\ phase = "building"
  /\ \E name \in LookupNames :
       found' = [called |-> TRUE, name |-> name,
                 count |-> Len(archive.entries),
                 entry |-> get_entry(archive.entries, name, 1)]
  /\ UNCHANGED <<archive, disk, layout, tamper, loaded, phase, extracted>>

\* mfaf.extract_entry(name, output_path)
ExtractEntry ==
  /\ phase = "building"
  /\ \E name \in LookupNames :
       LET r == extract_entry(archive.entries, name, NO_FILE)
       IN  extracted' = [called |-> TRUE, name |-> name,
                         count |-> Len(archive.entries),
                         error |-> r.error, output |-> r.output]
  /\ UNCHANGED <<archive, disk, layout, tamper, loaded, phase, found>>

(***************************************************************************)
(* What happens to the file between save and load.                         *)
(***************************************************************************)
Tampered(kind, at, arg, bytes) ==
  /\ phase = "saved"
  /\ disk' = bytes
  /\ tamper' = [kind |-> kind, at |-> at, arg |-> arg]
  /\ phase' = "tampered"
  /\ UNCHANGED <<archive, layout, loaded, found, extracted>>

\* the bytes with the n bytes at offset at (from 0) replaced
Overwrite(bytes, at, new) ==
  SubSeq(bytes, 1, at) \o new \o SubSeq(bytes, at + Len(new) + 1, Len(bytes))

BitMask(k) == IF k = 0 THEN 1 ELSE 2 ^ k

\* one bit of the content region or of the metadata blob flips
FlipBit ==
  \E at \in layout.content_offset..(layout.metadata_end - 1), k \in 0..7 :
    Tampered("flip", at, k,
             [disk EXCEPT ![at + 1] = XorByte(@, BitMask(k))])

\* the file is cut to a shorter length
Truncate ==
  \E n \in 0..(Len(disk) - 1) :
    Tampered("truncate", n, 0, SubSeq(disk, 1, n))

\* the first 8 bytes are replaced
ReplaceMagic ==
  \E m \in 1..Len(BadMagics) :
    Tampered("magic", 0, m, Overwrite(disk, 0, BadMagics[m]))

\* the header's version is replaced
SetVersion ==
  \E v \in VersionInputs :
    Tampered("version", 36, v, Overwrite(disk, 36, PackLE(v, 2)))

\* the values a size field is replaced by
FieldValues ==
  {0, layout.content_offset, layout.metadata_offset - 1, layout.metadata_offset + 1,
   layout.metadata_end - 1, layout.metadata_end + 1, layout.metadata_end + 2,
   Len(disk) - 1, Len(disk) + 1}

\* one of total_size, metadata_offset (header) and metadata_end (footer)
\* is replaced
SetField ==
  \E v \in FieldValues :
    \/ /\ v # Len(disk)
       /\ Tampered("total_size", 8, v, Overwrite(disk, 8, PackLE(v, 8)))
    \/ /\ v # layout.metadata_offset
       /\ Tampered("metadata_offset", 24, v, Overwrite(disk, 24, PackLE(v, 8)))
    \/ /\ v # layout.metadata_end
       /\ Tampered("metadata_end", Len(disk) - FOOTER_SIZE + 8, v,
                   Overwrite(disk, Len(disk) - FOOTER_SIZE + 8, PackLE(v, 8)))

\* bytes are inserted between the metadata blob and the footer, or after
\* the footer; header and footer stay as they were
InsertBytes ==
  \E at \in {layout.metadata_end, Len(disk)}, n \in 1..2 :
    Tampered("insert", at, n,
             SubSeq(disk, 1, at) \o Zeros(n) \o SubSeq(disk, at + 1, Len(disk)))

\* the file at file_path was written by another program
WriteForeign ==
  /\ phase = "building"
  /\ archive = MFAFFile
  /\ \E x \in ForeignInputs :
       /\ disk' = ForeignBytes(x)
       /\ layout' = ForeignLayout(x)
       /\ tamper' = [kind |-> "foreign", at |-> 0, arg |-> x.blob]
  /\ phase' = "tampered"
  /\ UNCHANGED <<archive, loaded, found, extracted>>

(***************************************************************************)
(* Specifications.                                                         *)
(***************************************************************************)
\* an archive is built and saved, the file may be damaged or come from
\* elsewhere, and is loaded
Next ==
  \/ AddEntry(MaxEntries)
  \/ Save
  \/ FlipBit
  \/ Truncate
  \/ ReplaceMagic
  \/ SetVersion
  \/ SetField
  \/ InsertBytes
  \/ WriteForeign
  \/ Load

Spec == Init /\ [][Next]_vars

\* an archive is built, contents are reassigned, it is saved and loaded back
NextBuild ==
  \/ AddEntry(MaxEntries)
  \/ SetContent
  \/ Save
  \/ Load

SpecBuild == Init /\ [][NextBuild]_vars

\* entries are added and looked up by name
NextLookup ==
  \/ AddEntry(MaxLookupEntries)
  \/ GetEntry
  \/ ExtractEntry

SpecLookup == Init /\ [][NextLookup]_vars

(***************************************************************************)
(* The exception classes of exceptions.py that load raises or is said to   *)
(* raise.                                                                  *)
(***************************************************************************)
MFAFErrors ==
  {"MFAFMagicError", "MFAFSizeError", "MFAFCRCError", "MFAFRangeError",
   "MFAFMsgPackError", "MFAFVersionError"}

(***************************************************************************)
(* Properties.                                                             *)
(***************************************************************************)
Loaded == phase = "loaded"

Entries == archive.entries

LoadedEntries == loaded.archive.entries

InContent(at) == layout.content_offset <= at /\ at < layout.metadata_offset

InMetadata(at) == layout.metadata_offset <= at /\ at < layout.metadata_end

SameEntry(l, e) ==
  /\ l.name = e.name
  /\ l.content = e.content
  /\ l.mime_type = e.mime_type
  /\ l.attributes.t = "dict"
  /\ DictEq(l.attributes, e.attributes)
  /\ (e.attributes = EMPTY_DICT => l.attributes = EMPTY_DICT)

\* C1 (round trip): when an archive built from constructed entries is saved
\* and the file is loaded as written, load succeeds and returns as many
\* entries, with the same names in the same order, the same content bytes,
\* the same MIME types and equal attribute maps (empty loads as empty).
C1_RoundTrip ==
  (Loaded /\ tamper.kind = "none") =>
    /\ loaded.status = "ok"
    /\ Len(LoadedEntries) = Len(Entries)
    /\ \A i \in 1..Len(Entries) : SameEntry(LoadedEntries[i], Entries[i])

C1_Witness ==
  /\ Loaded /\ tamper.kind = "none" /\ loaded.status = "ok"
  /\ Len(LoadedEntries) = 2
  /\ LoadedEntries[1].attributes # EMPTY_DICT
  /\ LoadedEntries[2].attributes = EMPTY_DICT
  /\ LoadedEntries[2].content = <<255>>

C3_TruncationFails ==
  (Loaded /\ tamper.kind = "truncate") =>
    loaded.status \in {"MFAFSizeError", "MFAFRangeError"}

\* The gates in the order C4 gives them, decided on the bytes of the file:
\* the error of the first gate that fails, "content-slice" when every gate
\* before the content slice passes.
FirstFailedGate(data) ==
  LET footer_data == Slice(data, Len(data) - FOOTER_SIZE, Len(data))
      metadata_bytes == Slice(data, HeaderMetadataOffset(data),
                              FooterMetadataEnd(footer_data))
  IN  CASE Len(data) < HEADER_SIZE -> "MFAFSizeError"
        [] HeaderMagic(data) # HEADER_MAGIC -> "MFAFMagicError"
        [] HeaderVersion(data) > 1 -> "MFAFVersionError"
        [] Len(footer_data) < FOOTER_SIZE -> "MFAFSizeError"
        [] FooterMagic(footer_data) # FOOTER_MAGIC -> "MFAFMagicError"
        [] FooterMetadataEnd(footer_data) + FOOTER_SIZE # HeaderTotalSize(data)
             -> "MFAFSizeError"
        [] crc32(metadata_bytes) # FooterChecksum(footer_data) -> "MFAFCRCError"
        [] unpackb(metadata_bytes).st # "ok" -> "MFAFMsgPackError"
        [] OTHER -> "content-slice"

\* C4 (gate order): whatever the file, the error load raises is that of the
\* first gate that fails in the order header length, header magic, version,
\* footer length, footer magic, structural size, checksum, metadata parse,
\* content slice (and none of the earlier gates' errors once all of them
\* pass); a file whose first 8 bytes were replaced fails with MFAFMagicError.
C4_GateOrder ==
  Loaded =>
    /\ LET gate == FirstFailedGate(disk)
       IN  IF gate = "content-slice"
           THEN loaded.status \in {"ok", "MFAFRangeError"}
           ELSE loaded.status = gate
    /\ tamper.kind = "magic" => loaded.status = "MFAFMagicError"

\* C5 (version gate): a saved file whose header version was replaced by 2
\* or more fails to load with MFAFVersionError, and load raises that error
\* only for a header whose version is 2 or more.
C5_VersionGate ==
  Loaded =>
    /\ (tamper.kind = "version" /\ tamper.arg >= 2)
         => loaded.status = "MFAFVersionError"
    /\ loaded.status = "MFAFVersionError"
         => (Len(disk) >= HEADER_SIZE /\ HeaderVersion(disk) >= 2)

C5_Witness ==
  /\ Loaded /\ tamper.kind = "version" /\ tamper.arg = 2
  /\ Len(Entries) > 0
  /\ loaded.status = "MFAFVersionError"

\* C6 (typed failures only): load returns an archive or fails with one of
\* the MFAFError subclasses, never with another exception.
C6_TypedFailuresOnly ==
  Loaded => loaded.status \in {"ok"} \cup MFAFErrors

\* the entries there were when the lookup was made
EntriesAt(count) == SubSeq(Entries, 1, count)

HasName(entries, name) == \E i \in 1..Len(entries) : entries[i].name = name

\* C7 (lookup): get_entry returns the earliest-appended entry of that name,
\* and None when there is none; extract_entry of a name that no entry has
\* raises KeyError and writes no output file.
C7_LookupSemantics ==
  /\ found.called =>
       LET entries == EntriesAt(found.count)
       IN  IF HasName(entries, found.name)
           THEN /\ found.entry \in 1..Len(entries)
                /\ entries[found.entry].name = found.name
                /\ \A j \in 1..(found.entry - 1) : entries[j].name # found.name
           ELSE found.entry = 0
  /\ (extracted.called /\ ~HasName(EntriesAt(extracted.count), extracted.name))
       => (extracted.error = "KeyError" /\ ~extracted.output.exists)

C7_Witness ==
  /\ found.called /\ found.name = NAME_A /\ found.count = 3
  /\ Entries[1].name = NAME_A /\ Entries[2].name = NAME_B
  /\ Entries[3].name = NAME_A /\ Entries[3].content # Entries[1].content
  /\ found.entry = 1

RECURSIVE SizeSum(_, _)
\* the sum of the entries' size fields
SizeSum(entries, i) ==
  IF i > Len(entries) THEN 0 ELSE entries[i].size.v + SizeSum(entries, i + 1)

Written == phase \in {"saved", "loaded"}

\* C8 (declared size on encode): after save, the archive's total_size, the
\* header's total_size and the length of the file are all header width +
\* sum of content lengths + metadata blob length + footer width;
\* content_offset is the header width, metadata_offset is content_offset +
\* the sum of the entries' sizes, metadata_end is total_size - footer width;
\* an empty archive takes header + footer + the encoding of an empty list,
\* and loads as zero entries, version 1, flags 0.
C8_DeclaredSize ==
  /\ Written =>
       LET footer_data == Slice(disk, Len(disk) - FOOTER_SIZE, Len(disk))
       IN  /\ Len(disk) = HEADER_SIZE + ContentSize(Entries, 1)
                            + Len(SaveMetadata(archive)) + FOOTER_SIZE
           /\ archive.total_size = Len(disk)
           /\ HeaderTotalSize(disk) = Len(disk)
           /\ HeaderContentOffset(disk) = HEADER_SIZE
           /\ HeaderMetadataOffset(disk) = HEADER_SIZE + SizeSum(Entries, 1)
           /\ FooterMetadataEnd(footer_data) = Len(disk) - FOOTER_SIZE
           /\ Entries = <<>> =>
                Len(disk) = HEADER_SIZE + FOOTER_SIZE + Len(packb(PyList(<<>>)))
  /\ (Loaded /\ Entries = <<>>) =>
       /\ loaded.status = "ok"
       /\ loaded.archive =
            [entries |-> <<>>, version |-> 1, flags |-> 0,
             total_size |-> HEADER_SIZE + FOOTER_SIZE + Len(packb(PyList(<<>>)))]

\* the layout invariant of the entries, against the file they are in
EntryLayoutOk(entries, data) ==
  /\ \A i \in 1..Len(entries) :
       /\ entries[i].offset.v >= HEADER_SIZE
       /\ entries[i].offset.v + entries[i].size.v <= HeaderMetadataOffset(data)
       /\ entries[i].size.v = Len(entries[i].content)

\* C9 (entry layout): every entry of an archive just saved, and every entry
\* of an archive load returned, has offset >= header width, offset + size
\* <= metadata_offset and size = len(content); after save the file holds
\* each entry's content at [offset, offset + size), each entry starting
\* where the one before it ends.
C9_EntryLayout ==
  /\ Written =>
       /\ EntryLayoutOk(Entries, disk)
       /\ \A i \in 1..Len(Entries) :
            /\ Slice(disk, Entries[i].offset.v,
                     Entries[i].offset.v + Entries[i].size.v) = Entries[i].content
            /\ Entries[i].offset.v =
                 IF i = 1 THEN HEADER_SIZE
                 ELSE Entries[i - 1].offset.v + Entries[i - 1].size.v
  /\ (Loaded /\ loaded.status = "ok") => EntryLayoutOk(LoadedEntries, disk)

\* the size fields agree with each other and with the length of the file
Reconciles(data) ==
  LET footer_data == Slice(data, Len(data) - FOOTER_SIZE, Len(data))
  IN  /\ HeaderTotalSize(data) = Len(data)
      /\ FooterMetadataEnd(footer_data) = Len(data) - FOOTER_SIZE
      /\ HeaderMetadataOffset(data) <= FooterMetadataEnd(footer_data)

\* C10 (declared size reconciled on decode): when load succeeds, the
\* header's total_size is the length of the file and metadata_offset <=
\* metadata_end = length - footer width; a saved file that had bytes
\* inserted between the metadata blob and the footer, header and footer
\* left as they were, fails with MFAFSizeError.
C10_SizeReconciled ==
  Loaded =>
    /\ loaded.status = "ok" =>
         (loaded.archive.total_size = Len(disk) /\ Reconciles(disk))
    /\ (tamper.kind = "insert" /\ tamper.at = layout.metadata_end)
         => loaded.status = "MFAFSizeError"

====
